---- MODULE Spec2Model ----
(***************************************************************************)
(* Model of the NFT auction program (program/src/processor.rs).            *)
(*                                                                         *)
(* One escrow storage account holds one Auction record.  Four instructions *)
(* (Exhibit = Open, Bid, Cancel, Close) read the record, validate the      *)
(* caller-supplied accounts against it, issue cross-program calls to the   *)
(* token program and write the record back.  A failed instruction is       *)
(* rolled back whole by the ledger, so a failing instruction leaves the    *)
(* escrow and every token account as they were.                            *)
(***************************************************************************)
EXTENDS Integers, FiniteSets, Sequences, TLC

(* ---- bounds of the model ---------------------------------------------- *)
MaxTime  == 1      \* clock.unix_timestamp ranges over 0..MaxTime
MaxPrice == 2      \* bid prices range over 0..MaxPrice
MaxTemps == 2      \* temporary currency custody accounts that can be created
InitBal  == 2      \* currency each bidder starts with
Width    == 4      \* bit width standing for the 64 bits of u64 / i64

(* ---- identities -------------------------------------------------------- *)
Null    == "Null"          \* Pubkey::default()
PDA     == "PDA"           \* Pubkey::find_program_address(&[b"escrow"], program_id)
Parties == {"E", "B1", "B2"}
Bidders == {"B1", "B2"}

TempName == <<"T1", "T2", "T3", "T4">>
Temps    == {TempName[i] : i \in 1..MaxTemps}
FtOf(p)  == IF p = "E" THEN "ftE" ELSE IF p = "B1" THEN "ftB1" ELSE "ftB2"
FtAccts  == {"ftE", "ftB1", "ftB2"} \cup Temps
NftAccts == {"nftE", "nftTemp", "nftB1", "nftB2"}
TokAccts == FtAccts \cup NftAccts

(* ---- integer widths ---------------------------------------------------- *)
RECURSIVE Pow2(_)
Pow2(n) == IF n = 0 THEN 1 ELSE 2 * Pow2(n - 1)
U64Max  == Pow2(Width) - 1
I64Max  == Pow2(Width - 1) - 1
I64Min  == 0 - Pow2(Width - 1)

VARIABLES escrow, tok, now, runtime, last, creator, paid

vars == <<escrow, tok, now, runtime, last, creator, paid>>

(* ---- the token program (spl_token), as the processor calls it ---------- *)
(* A token account: its mint, balance, owner (authority) and whether it is  *)
(* an initialized account.  Every call returns [ok, tok].                   *)
NoAcct == [mint |-> "none", amount |-> 0, owner |-> Null, init |-> FALSE]

IsLive(tk, a) == a \in TokAccts /\ tk[a].init

\* spl_token transfer: source and destination are live accounts of one mint,
\* the authority owns the source and has signed, the balance suffices.
TokTransfer(tk, from, to, auth, signerOk, amount) ==
  LET ok == /\ IsLive(tk, from) /\ IsLive(tk, to)
            /\ tk[from].mint = tk[to].mint
            /\ tk[from].owner = auth /\ signerOk
            /\ tk[from].amount >= amount
  IN IF ~ok THEN [ok |-> FALSE, tok |-> tk]
     ELSE IF from = to THEN [ok |-> TRUE, tok |-> tk]
     ELSE [ok |-> TRUE,
           tok |-> [tk EXCEPT ![from].amount = @ - amount,
                              ![to].amount = @ + amount]]

\* spl_token set_authority(AccountOwner): the current owner has signed.
TokSetAuthority(tk, acct, newAuth, auth, signerOk) ==
  LET ok == IsLive(tk, acct) /\ tk[acct].owner = auth /\ signerOk
  IN IF ~ok THEN [ok |-> FALSE, tok |-> tk]
     ELSE [ok |-> TRUE, tok |-> [tk EXCEPT ![acct].owner = newAuth]]

\* spl_token close_account: only an empty account can be closed by its owner.
TokCloseAccount(tk, acct, auth, signerOk) ==
  LET ok == /\ IsLive(tk, acct) /\ tk[acct].owner = auth /\ signerOk
            /\ tk[acct].amount = 0
  IN IF ~ok THEN [ok |-> FALSE, tok |-> tk]
     ELSE [ok |-> TRUE, tok |-> [tk EXCEPT ![acct] = NoAcct]]

(* ---- the Auction record in the escrow storage -------------------------- *)
AuctionLEN == 1    \* the escrow data is either empty (0) or one packed record

ZeroAuction ==
  [is_initialized |-> FALSE,
   exhibitor_pubkey |-> Null,
   exhibiting_nft_temp_pubkey |-> Null,
   exhibitor_ft_receiving_pubkey |-> Null,
   price |-> 0,
   end_at |-> 0,
   highest_bidder_pubkey |-> Null,
   highest_bidder_ft_temp_pubkey |-> Null,
   highest_bidder_ft_returning_pubkey |-> Null]

\* Auction::unpack_unchecked: rejects a buffer of the wrong length.
UnpackUnchecked(e) ==
  IF e.data_len # AuctionLEN THEN [err |-> "InvalidAccountData"]
  ELSE [err |-> "Ok"]

\* Auction::unpack: unpack_unchecked, then requires is_initialized.
Unpack(e) ==
  IF e.data_len # AuctionLEN THEN [err |-> "InvalidAccountData"]
  ELSE IF ~e.auction.is_initialized THEN [err |-> "UninitializedAccount"]
  ELSE [err |-> "Ok"]

\* rent.is_exempt(lamports, data_len): the minimum balance is positive for
\* every data length; lamports is 1 when the storage is funded, else 0.
RentExempt(e) == e.lamports >= 1

(* ---- outcomes ---------------------------------------------------------- *)
\* A failed instruction: the ledger rolls back every effect.
Fail(e, tk, code) == [res |-> code, escrow |-> e, tok |-> tk, msg |-> 0]
Done(e, tk)       == [res |-> "Ok", escrow |-> e, tok |-> tk, msg |-> 0]

\* A cross-program call whose Result the code drops.  On the on-chain VM a
\* failed call ends the instruction anyway; under the native test runtime the
\* Err comes back to the caller, which carries on.
Dropped(rt, r) == rt = "vm" /\ ~r.ok

(* ---- i64 arithmetic of the deadline ------------------------------------ *)
\* `auction_duration_sec as i64`: the unsigned value reinterpreted as signed.
AsI64(u) == IF u > I64Max THEN u - Pow2(Width) ELSE u

\* two's complement wrap of a signed sum
WrapI64(x) == ((x - I64Min) % Pow2(Width)) + I64Min

\* clock.unix_timestamp.add(auction_duration_sec as i64)
EndAt(t, seconds) == WrapI64(t + AsI64(seconds))

\* the addition overflows i64: a panic in the native test build, which
\* compiles overflow checks in; a silent wrap in the on-chain release build
EndAtOverflows(t, seconds) ==
  t + AsI64(seconds) > I64Max \/ t + AsI64(seconds) < I64Min

(* ---- Exhibit (Open) ----------------------------------------------------- *)
\* mutant: Exhibit does not look at is_initialized
process_exhibit_reopen(e, tk, t, rt, a) ==
  IF ~a.signed THEN Fail(e, tk, "MissingRequiredSignature")
  ELSE IF ~RentExempt(e) THEN Fail(e, tk, "NotRentExempt")
  ELSE IF UnpackUnchecked(e).err # "Ok" THEN Fail(e, tk, UnpackUnchecked(e).err)
  ELSE IF rt = "native" /\ EndAtOverflows(t, a.seconds) THEN Fail(e, tk, "Panic")
  ELSE
    LET rec == [e.auction EXCEPT
                  !.is_initialized = TRUE,
                  !.exhibitor_pubkey = a.caller,
                  !.exhibiting_nft_temp_pubkey = a.nft_temp,
                  !.exhibitor_ft_receiving_pubkey = a.ft_recv,
                  !.price = a.initial_price,
                  !.end_at = EndAt(t, a.seconds)]
        r1  == TokTransfer(tk, a.nft_src, a.nft_temp, a.caller, TRUE, 1)
        r2  == TokSetAuthority(r1.tok, a.nft_temp, PDA, a.caller, TRUE)
    IN IF ~r1.ok THEN Fail(e, tk, "TokenError")
       ELSE IF ~r2.ok THEN Fail(e, tk, "TokenError")
       ELSE Done([e EXCEPT !.auction = rec], r2.tok)

\* a: [caller, signed, nft_src, nft_temp, ft_recv, initial_price, seconds]
process_exhibit(e, tk, t, rt, a) ==
  IF ~a.signed THEN Fail(e, tk, "MissingRequiredSignature")
  ELSE IF ~RentExempt(e) THEN Fail(e, tk, "NotRentExempt")
  ELSE IF UnpackUnchecked(e).err # "Ok" THEN Fail(e, tk, UnpackUnchecked(e).err)
  ELSE IF e.auction.is_initialized THEN Fail(e, tk, "AccountAlreadyInitialized")
  ELSE IF rt = "native" /\ EndAtOverflows(t, a.seconds) THEN Fail(e, tk, "Panic")
  ELSE
    LET rec == [e.auction EXCEPT
                  !.is_initialized = TRUE,
                  !.exhibitor_pubkey = a.caller,
                  !.exhibiting_nft_temp_pubkey = a.nft_temp,
                  !.exhibitor_ft_receiving_pubkey = a.ft_recv,
                  !.price = a.initial_price,
                  !.end_at = EndAt(t, a.seconds)]
        r1  == TokTransfer(tk, a.nft_src, a.nft_temp, a.caller, TRUE, 1)
        r2  == TokSetAuthority(r1.tok, a.nft_temp, PDA, a.caller, TRUE)
    IN IF ~r1.ok THEN Fail(e, tk, "TokenError")
       ELSE IF ~r2.ok THEN Fail(e, tk, "TokenError")
       ELSE Done([e EXCEPT !.auction = rec], r2.tok)

(* ---- closing helpers ---------------------------------------------------- *)
\* mutant: the custody account is left open
close_temporary_ft_keep(tk, rt, ft_temp, pdaOk) ==
  [abort |-> FALSE, tok |-> tk]

\* close_temporary_ft: close_account on the bidder's custody account; the
\* Result of invoke_signed is dropped and Ok(()) is returned.
close_temporary_ft(tk, rt, ft_temp, pdaOk) ==
  LET r == TokCloseAccount(tk, ft_temp, PDA, pdaOk)
  IN [abort |-> Dropped(rt, r), tok |-> r.tok]

\* mutant: the record is zeroed but the storage keeps its size and lamports
ReclaimStorage_zeroed(e) == [e EXCEPT !.auction = ZeroAuction]

\* the escrow storage after close_escrow: no lamports, empty data
ReclaimStorage(e) ==
  [data_len |-> 0, lamports |-> 0, auction |-> ZeroAuction]

\* close_escrow: close_account on the collectible custody account (Result
\* dropped), then the storage's lamports go to the exhibitor and its data
\* is emptied.
close_escrow(e, tk, rt, nft_temp, pdaOk) ==
  LET r == TokCloseAccount(tk, nft_temp, PDA, pdaOk)
  IN [abort |-> Dropped(rt, r), tok |-> r.tok, escrow |-> ReclaimStorage(e)]

(* ---- Bid ---------------------------------------------------------------- *)
\* mutant: a bid at the very second of auction_end is let through
BidInactive_lt(rec, t) == rec.end_at < t

\* if auction_info.end_at <= clock.unix_timestamp
BidInactive(rec, t) == rec.end_at <= t

\* mutant: a bid equal to the current price is let through
BidInsufficient_strict(rec, price) == rec.price > price

\* if auction_info.price >= price
BidInsufficient(rec, price) == rec.price >= price

\* mutant: the refund destination is not compared
BidRefsMatch_noret(rec, a) ==
  /\ rec.highest_bidder_ft_temp_pubkey = a.hb_ft_temp
  /\ rec.highest_bidder_pubkey = a.hb

\* the three comparisons of the stored previous bidder with the supplied one
BidRefsMatch(rec, a) ==
  /\ rec.highest_bidder_ft_temp_pubkey = a.hb_ft_temp
  /\ rec.highest_bidder_ft_returning_pubkey = a.hb_ft_ret
  /\ rec.highest_bidder_pubkey = a.hb

\* the amount of the refund transfer: auction_info.price, read before the
\* record is overwritten
RefundAmount(rec, price) == rec.price

\* the refund of the previous bidder and the close of their custody account;
\* neither Result is looked at
RefundPrevious(tk, rt, rec, a) ==
  LET r == TokTransfer(tk, a.hb_ft_temp, a.hb_ft_ret, PDA, a.pdaOk,
                       RefundAmount(rec, a.price))
  IN IF Dropped(rt, r) THEN [abort |-> TRUE, tok |-> tk]
     ELSE close_temporary_ft(r.tok, rt, a.hb_ft_temp, a.pdaOk)

\* mutant: an accepted bid moves the deadline
BidRecord_extend(rec, a) ==
  [rec EXCEPT !.price = a.price,
              !.end_at = @ + 1,
              !.highest_bidder_pubkey = a.caller,
              !.highest_bidder_ft_temp_pubkey = a.ft_temp,
              !.highest_bidder_ft_returning_pubkey = a.ft_src]

\* mutant: an accepted bid does not record who made it
BidRecord_anon(rec, a) ==
  [rec EXCEPT !.price = a.price,
              !.highest_bidder_ft_temp_pubkey = a.ft_temp,
              !.highest_bidder_ft_returning_pubkey = a.ft_src]

\* the record written back by an accepted bid
BidRecord(rec, a) ==
  [rec EXCEPT !.price = a.price,
              !.highest_bidder_pubkey = a.caller,
              !.highest_bidder_ft_temp_pubkey = a.ft_temp,
              !.highest_bidder_ft_returning_pubkey = a.ft_src]

\* mutant: the highest bidder may bid again
process_bid_rebid(e, tk, t, rt, a) ==
  IF ~a.signed THEN Fail(e, tk, "MissingRequiredSignature")
  ELSE IF Unpack(e).err # "Ok" THEN Fail(e, tk, Unpack(e).err)
  ELSE IF BidInactive(e.auction, t) THEN Fail(e, tk, "InactiveAuction")
  ELSE IF BidInsufficient(e.auction, a.price)
       THEN Fail(e, tk, "InsufficientBidPrice")
  ELSE IF ~BidRefsMatch(e.auction, a) THEN Fail(e, tk, "InvalidInstruction")
  ELSE
    LET rec == e.auction
        r1  == TokTransfer(tk, a.ft_src, a.ft_temp, a.caller, TRUE, a.price)
        r2  == TokSetAuthority(r1.tok, a.ft_temp, PDA, a.caller, TRUE)
        r3  == IF rec.highest_bidder_pubkey # Null
               THEN RefundPrevious(r2.tok, rt, rec, a)
               ELSE [abort |-> FALSE, tok |-> r2.tok]
    IN IF ~r1.ok THEN Fail(e, tk, "TokenError")
       ELSE IF ~r2.ok THEN Fail(e, tk, "TokenError")
       ELSE IF r3.abort THEN Fail(e, tk, "TokenError")
       ELSE Done([e EXCEPT !.auction = BidRecord(rec, a)], r3.tok)

\* a: [caller, signed, price, hb, hb_ft_temp, hb_ft_ret, ft_temp, ft_src, pdaOk]
process_bid(e, tk, t, rt, a) ==
  IF ~a.signed THEN Fail(e, tk, "MissingRequiredSignature")
  ELSE IF Unpack(e).err # "Ok" THEN Fail(e, tk, Unpack(e).err)
  ELSE IF BidInactive(e.auction, t) THEN Fail(e, tk, "InactiveAuction")
  ELSE IF BidInsufficient(e.auction, a.price)
       THEN Fail(e, tk, "InsufficientBidPrice")
  ELSE IF ~BidRefsMatch(e.auction, a) THEN Fail(e, tk, "InvalidInstruction")
  ELSE IF e.auction.highest_bidder_pubkey = a.caller
       THEN Fail(e, tk, "AlreadyBid")
  ELSE
    LET rec == e.auction
        r1  == TokTransfer(tk, a.ft_src, a.ft_temp, a.caller, TRUE, a.price)
        r2  == TokSetAuthority(r1.tok, a.ft_temp, PDA, a.caller, TRUE)
        r3  == IF rec.highest_bidder_pubkey # Null
               THEN RefundPrevious(r2.tok, rt, rec, a)
               ELSE [abort |-> FALSE, tok |-> r2.tok]
    IN IF ~r1.ok THEN Fail(e, tk, "TokenError")
       ELSE IF ~r2.ok THEN Fail(e, tk, "TokenError")
       ELSE IF r3.abort THEN Fail(e, tk, "TokenError")
       ELSE Done([e EXCEPT !.auction = BidRecord(rec, a)], r3.tok)

(* ---- Cancel ------------------------------------------------------------- *)
\* mutant: Cancel does not look at the highest bidder
CancelBlocked_never(rec) == FALSE

\* if auction_info.highest_bidder_pubkey != Pubkey::default()
CancelBlocked(rec) == rec.highest_bidder_pubkey # Null

\* a: [caller, signed, nft_temp, nft_ret, pdaOk]
process_cancel(e, tk, t, rt, a) ==
  IF ~a.signed THEN Fail(e, tk, "MissingRequiredSignature")
  ELSE IF Unpack(e).err # "Ok" THEN Fail(e, tk, Unpack(e).err)
  ELSE IF e.auction.exhibitor_pubkey # a.caller
       THEN Fail(e, tk, "InvalidAccountData")
  ELSE IF e.auction.exhibiting_nft_temp_pubkey # a.nft_temp
       THEN Fail(e, tk, "InvalidAccountData")
  ELSE IF CancelBlocked(e.auction) THEN Fail(e, tk, "AlreadyBid")
  ELSE IF ~IsLive(tk, a.nft_temp) THEN Fail(e, tk, "InvalidAccountData")
  ELSE
    LET r1 == TokTransfer(tk, a.nft_temp, a.nft_ret, PDA, a.pdaOk,
                          tk[a.nft_temp].amount)
        r2 == close_escrow(e, r1.tok, rt, a.nft_temp, a.pdaOk)
    IN IF ~r1.ok THEN Fail(e, tk, "TokenError")
       ELSE IF r2.abort THEN Fail(e, tk, "TokenError")
       ELSE Done(r2.escrow, r2.tok)

(* ---- Close (settlement) -------------------------------------------------- *)
\* mutant: Close is let through one second early
CloseTooEarly_off(rec, t) == rec.end_at > t + 1

\* if auction_info.end_at > clock.unix_timestamp
CloseTooEarly(rec, t) == rec.end_at > t

\* the seconds reported by the "Auction will end in {} seconds" message
RemainingSeconds(rec, t) == rec.end_at - t

\* mutant: the signer of Close is not compared with the highest bidder
CloseRefsMatch_anyone(rec, a) ==
  /\ rec.exhibitor_pubkey = a.exhibitor
  /\ rec.exhibiting_nft_temp_pubkey = a.nft_temp
  /\ rec.exhibitor_ft_receiving_pubkey = a.ft_recv
  /\ rec.highest_bidder_ft_temp_pubkey = a.hb_ft_temp

\* the four comparisons of supplied accounts with the record, then the caller
CloseRefsMatch(rec, a) ==
  /\ rec.exhibitor_pubkey = a.exhibitor
  /\ rec.exhibiting_nft_temp_pubkey = a.nft_temp
  /\ rec.exhibitor_ft_receiving_pubkey = a.ft_recv
  /\ rec.highest_bidder_ft_temp_pubkey = a.hb_ft_temp
  /\ rec.highest_bidder_pubkey = a.caller

\* a: [caller, signed, exhibitor, nft_temp, ft_recv, hb_ft_temp, nft_recv, pdaOk]
process_close(e, tk, t, rt, a) ==
  IF ~a.signed THEN Fail(e, tk, "MissingRequiredSignature")
  ELSE IF Unpack(e).err # "Ok" THEN Fail(e, tk, Unpack(e).err)
  ELSE IF CloseTooEarly(e.auction, t)
       THEN [Fail(e, tk, "ActiveAuction") EXCEPT
               !.msg = RemainingSeconds(e.auction, t)]
  ELSE IF ~CloseRefsMatch(e.auction, a) THEN Fail(e, tk, "InvalidAccountData")
  ELSE IF ~IsLive(tk, a.nft_temp) THEN Fail(e, tk, "InvalidAccountData")
  ELSE
    LET r1 == TokTransfer(tk, a.nft_temp, a.nft_recv, PDA, a.pdaOk,
                          tk[a.nft_temp].amount)
        r2 == IF IsLive(r1.tok, a.hb_ft_temp)
              THEN TokTransfer(r1.tok, a.hb_ft_temp, a.ft_recv, PDA, a.pdaOk,
                               r1.tok[a.hb_ft_temp].amount)
              ELSE [ok |-> FALSE, tok |-> r1.tok]
        r3 == close_temporary_ft(r2.tok, rt, a.hb_ft_temp, a.pdaOk)
        r4 == close_escrow(e, r3.tok, rt, a.nft_temp, a.pdaOk)
    IN IF ~r1.ok THEN Fail(e, tk, "TokenError")
       ELSE IF ~r2.ok THEN Fail(e, tk, "TokenError")
       ELSE IF r3.abort THEN Fail(e, tk, "TokenError")
       ELSE IF r4.abort THEN Fail(e, tk, "TokenError")
       ELSE Done(r4.escrow, r4.tok)

(* ---- the token-program calls an instruction issues --------------------- *)
\* One cross-program call: which instruction of the token program, the
\* account it acts on (the source of a transfer), whether it succeeded and
\* the balance that account held when the call was made.
Call(kind, acct, r, tk) ==
  [kind |-> kind, acct |-> acct, ok |-> r.ok,
   bal |-> IF IsLive(tk, acct) THEN tk[acct].amount ELSE 0]

\* The calls of process_bid once its checks have passed, in order: deposit,
\* authority handover, and with a previous bidder the refund and the close of
\* the previous custody account.  A call after a `?` is issued only if the
\* one before succeeded; a call after a dropped Result is issued unless the
\* runtime ended the instruction.
BidCalls(tk, rt, rec, a) ==
  LET r1 == TokTransfer(tk, a.ft_src, a.ft_temp, a.caller, TRUE, a.price)
      r2 == TokSetAuthority(r1.tok, a.ft_temp, PDA, a.caller, TRUE)
      r3 == TokTransfer(r2.tok, a.hb_ft_temp, a.hb_ft_ret, PDA, a.pdaOk,
                        RefundAmount(rec, a.price))
      r4 == TokCloseAccount(r3.tok, a.hb_ft_temp, PDA, a.pdaOk)
      c1 == <<Call("transfer", a.ft_src, r1, tk)>>
      c2 == c1 \o <<Call("set_authority", a.ft_temp, r2, r1.tok)>>
      c3 == c2 \o <<Call("transfer", a.hb_ft_temp, r3, r2.tok)>>
      c4 == c3 \o <<Call("close_account", a.hb_ft_temp, r4, r3.tok)>>
  IN IF ~r1.ok THEN c1
     ELSE IF ~r2.ok \/ rec.highest_bidder_pubkey = Null THEN c2
     ELSE IF Dropped(rt, r3) THEN c3
     ELSE c4

\* The calls of process_cancel once its checks have passed: the return of the
\* collectible, then close_escrow's close of the custody account.
CancelCalls(tk, rt, a) ==
  LET r1 == TokTransfer(tk, a.nft_temp, a.nft_ret, PDA, a.pdaOk,
                        tk[a.nft_temp].amount)
      r2 == TokCloseAccount(r1.tok, a.nft_temp, PDA, a.pdaOk)
      c1 == <<Call("transfer", a.nft_temp, r1, tk)>>
  IN IF ~r1.ok THEN c1
     ELSE c1 \o <<Call("close_account", a.nft_temp, r2, r1.tok)>>

\* The calls of process_close once its checks have passed: delivery of the
\* collectible, payout of the custody balance, close of the bidder's custody
\* account and close_escrow's close of the collectible custody account.
CloseCalls(tk, rt, a) ==
  LET r1 == TokTransfer(tk, a.nft_temp, a.nft_recv, PDA, a.pdaOk,
                        tk[a.nft_temp].amount)
      r2 == IF IsLive(r1.tok, a.hb_ft_temp)
            THEN TokTransfer(r1.tok, a.hb_ft_temp, a.ft_recv, PDA, a.pdaOk,
                             r1.tok[a.hb_ft_temp].amount)
            ELSE [ok |-> FALSE, tok |-> r1.tok]
      r3 == TokCloseAccount(r2.tok, a.hb_ft_temp, PDA, a.pdaOk)
      r4 == TokCloseAccount(r3.tok, a.nft_temp, PDA, a.pdaOk)
      c1 == <<Call("transfer", a.nft_temp, r1, tk)>>
      c2 == c1 \o <<Call("transfer", a.hb_ft_temp, r2, r1.tok)>>
      c3 == c2 \o <<Call("close_account", a.hb_ft_temp, r3, r2.tok)>>
      c4 == c3 \o <<Call("close_account", a.nft_temp, r4, r3.tok)>>
  IN IF ~r1.ok THEN c1
     ELSE IF ~r2.ok THEN c2
     ELSE IF Dropped(rt, r3) THEN c3
     ELSE c4

(* ---- the inputs the instructions are tried with ------------------------ *)
Durations == {1, I64Max, U64Max}

\* An instruction whose first account has not signed is rejected before any
\* other input is read, so one unsigned attempt stands for all of them.
ExhibitArgs ==
  {[caller |-> c, signed |-> sg, nft_src |-> "nftE", nft_temp |-> "nftTemp",
    ft_recv |-> "ftE", initial_price |-> p, seconds |-> d] :
     c \in Parties, sg \in {TRUE}, p \in 0..(MaxPrice - 1), d \in Durations}
  \cup
  {[caller |-> "E", signed |-> FALSE, nft_src |-> "nftE",
    nft_temp |-> "nftTemp", ft_recv |-> "ftE", initial_price |-> 0,
    seconds |-> 1]}

\* The previous-bidder references a Bid supplies: the three the record
\* stores, or those with one of them replaced, or the three of a record
\* without a bid (a snapshot taken before the first bid).
PrevRefs ==
  LET h == escrow.auction.highest_bidder_pubkey
      t == escrow.auction.highest_bidder_ft_temp_pubkey
      r == escrow.auction.highest_bidder_ft_returning_pubkey
  IN {<<h, t, r>>, <<Null, Null, Null>>}
     \cup {<<x, t, r>> : x \in {Null} \cup Bidders}
     \cup {<<h, x, r>> : x \in {Null} \cup Temps}
     \cup {<<h, t, x>> : x \in {Null, "ftB1", "ftB2"}}

BidArgsWith(T) ==
  {[caller |-> c, signed |-> TRUE, price |-> p, hb |-> pr[1],
    hb_ft_temp |-> pr[2], hb_ft_ret |-> pr[3], ft_temp |-> t,
    ft_src |-> FtOf(c), pdaOk |-> k] :
     c \in Bidders, p \in 0..MaxPrice, pr \in PrevRefs, t \in T, k \in BOOLEAN}
  \cup
  {[caller |-> "B1", signed |-> FALSE, price |-> MaxPrice, hb |-> Null,
    hb_ft_temp |-> Null, hb_ft_ret |-> Null, ft_temp |-> t,
    ft_src |-> "ftB1", pdaOk |-> TRUE] : t \in T}

CancelArgs ==
  {[caller |-> c, signed |-> TRUE, nft_temp |-> nt, nft_ret |-> nr,
    pdaOk |-> k] :
     c \in Parties, nt \in {"nftTemp", "nftE"}, nr \in {"nftE", "ftE"},
     k \in BOOLEAN}
  \cup
  {[caller |-> "E", signed |-> FALSE, nft_temp |-> "nftTemp",
    nft_ret |-> "nftE", pdaOk |-> TRUE]}

\* The references a Close supplies (exhibitor, collectible custody, payout
\* destination, bidder custody): those the record stores, or those with one
\* of them replaced.
CloseRefs ==
  LET x == escrow.auction.exhibitor_pubkey
      n == escrow.auction.exhibiting_nft_temp_pubkey
      f == escrow.auction.exhibitor_ft_receiving_pubkey
      t == escrow.auction.highest_bidder_ft_temp_pubkey
  IN {<<x, n, f, t>>}
     \cup {<<y, n, f, t>> : y \in {"E", "B1"}}
     \cup {<<x, y, f, t>> : y \in {"nftTemp", "nftE"}}
     \cup {<<x, n, y, t>> : y \in {"ftE", "ftB1"}}
     \cup {<<x, n, f, y>> : y \in {Null} \cup Temps}

CloseArgs ==
  {[caller |-> c, signed |-> TRUE, exhibitor |-> cr[1], nft_temp |-> cr[2],
    ft_recv |-> cr[3], hb_ft_temp |-> cr[4], nft_recv |-> nr, pdaOk |-> k] :
     c \in Parties, cr \in CloseRefs, nr \in {"nftB1", "nftB2"}, k \in BOOLEAN}
  \cup
  {[caller |-> "B1", signed |-> FALSE, exhibitor |-> "E",
    nft_temp |-> "nftTemp", ft_recv |-> "ftE", hb_ft_temp |-> TempName[1],
    nft_recv |-> "nftB1", pdaOk |-> TRUE]}

(* ---- state machine ------------------------------------------------------ *)
Init ==
  /\ escrow = [data_len |-> AuctionLEN, lamports |-> 1, auction |-> ZeroAuction]
  /\ tok = [a \in TokAccts |->
             CASE a = "nftE"    -> [mint |-> "NFT", amount |-> 1, owner |-> "E", init |-> TRUE]
               [] a = "nftTemp" -> [mint |-> "NFT", amount |-> 0, owner |-> "E", init |-> TRUE]
               [] a = "nftB1"   -> [mint |-> "NFT", amount |-> 0, owner |-> "B1", init |-> TRUE]
               [] a = "nftB2"   -> [mint |-> "NFT", amount |-> 0, owner |-> "B2", init |-> TRUE]
               [] a = "ftE"     -> [mint |-> "FT", amount |-> 0, owner |-> "E", init |-> TRUE]
               [] a = "ftB1"    -> [mint |-> "FT", amount |-> InitBal, owner |-> "B1", init |-> TRUE]
               [] a = "ftB2"    -> [mint |-> "FT", amount |-> InitBal, owner |-> "B2", init |-> TRUE]
               [] OTHER         -> NoAcct]
  /\ now = 0
  /\ runtime \in {"vm", "native"}
  /\ last = [op |-> "Init", res |-> "Ok"]
  /\ creator = [t \in Temps |-> Null]
  /\ paid = [b \in Bidders |-> 0]

\* the instruction's outcome becomes the state; `last` records what ran
Apply(op, o) ==
  /\ escrow' = o.escrow
  /\ tok' = o.tok
  /\ last' = [op |-> op, res |-> o.res]
  /\ UNCHANGED <<now, runtime>>

\* what each instruction does in the current state
ExhibitOutcome(a) == process_exhibit(escrow, tok, now, runtime, a)
CancelOutcome(a)  == process_cancel(escrow, tok, now, runtime, a)
CloseOutcome(a)   == process_close(escrow, tok, now, runtime, a)

\* The temporary custody account a bidder creates for a bid, in the same
\* transaction as the Bid instruction: owned by the bidder, holding `pre`
\* units of the bidder's own currency already.
CreateTemp(tk, t, b, pre) ==
  [tk EXCEPT ![t] = [mint |-> "FT", amount |-> pre, owner |-> b, init |-> TRUE],
             ![FtOf(b)].amount = @ - pre]

FreshTemps == {i \in 1..MaxTemps : creator[TempName[i]] = Null}

FreshTemp == TempName[CHOOSE i \in FreshTemps : \A j \in FreshTemps : i <= j]

\* the bid transactions that can be submitted: the Bid's accounts and what the
\* bidder left in the new temporary account
BidTxs ==
  IF FreshTemps = {} THEN {}
  ELSE {x \in BidArgsWith({FreshTemp}) \X {0, 1} :
          tok[FtOf(x[1].caller)].amount >= x[2]}

\* The bidder's transaction: create the temporary account, then Bid.  A failed
\* Bid rolls the whole transaction back, the account's creation included.
BidOutcome(x) ==
  LET o == process_bid(escrow, CreateTemp(tok, x[1].ft_temp, x[1].caller, x[2]),
                       now, runtime, x[1])
  IN IF o.res = "Ok" THEN o ELSE Fail(escrow, tok, o.res)

Exhibit ==
  \E a \in ExhibitArgs :
    /\ Apply("Exhibit", ExhibitOutcome(a))
    /\ UNCHANGED <<creator, paid>>

Bid ==
  \E x \in BidTxs :
    LET o == BidOutcome(x)
    IN /\ Apply("Bid", o)
       /\ creator' = IF o.res = "Ok"
                     THEN [creator EXCEPT ![x[1].ft_temp] = x[1].caller]
                     ELSE creator
       /\ UNCHANGED paid

Cancel ==
  \E a \in CancelArgs :
    /\ Apply("Cancel", CancelOutcome(a))
    /\ UNCHANGED <<creator, paid>>

\* `paid` notes whose escrowed currency a settlement delivered to the exhibitor
Close ==
  \E a \in CloseArgs :
    LET o == CloseOutcome(a)
    IN /\ Apply("Close", o)
       /\ paid' = IF o.res = "Ok"
                  THEN [paid EXCEPT ![creator[a.hb_ft_temp]] =
                                       @ + tok[a.hb_ft_temp].amount]
                  ELSE paid
       /\ UNCHANGED creator

\* the ledger's clock moves on
Tick ==
  /\ now < MaxTime
  /\ now' = now + 1
  /\ last' = [op |-> "Tick", res |-> "Ok"]
  /\ UNCHANGED <<escrow, tok, runtime, creator, paid>>

Next == Exhibit \/ Bid \/ Cancel \/ Close \/ Tick

Spec == Init /\ [][Next]_vars

(* ======================================================================== *)
(* Properties                                                               *)
(* ======================================================================== *)
Initialized(e) == Unpack(e).err = "Ok"

RECURSIVE SumAmounts(_, _)
SumAmounts(tk, S) ==
  IF S = {} THEN 0
  ELSE LET a == CHOOSE x \in S : TRUE
       IN tk[a].amount + SumAmounts(tk, S \ {a})

\* the temporary accounts a bidder created that the Custody Authority controls
CustodyOf(b) == {t \in Temps : creator[t] = b /\ tok[t].init /\ tok[t].owner = PDA}

(* C1: whenever a Bid succeeds while a previous highest bidder exists, the   *)
(* previous bidder's refund destination has received exactly the previous    *)
(* current_price out of the previous temporary custody account, and that     *)
(* account is closed with zero balance.                                      *)
C1_RefundOnOutbid ==
  [][ (/\ last'.op = "Bid" /\ last'.res = "Ok"
       /\ Initialized(escrow)
       /\ escrow.auction.highest_bidder_pubkey # Null)
      => LET rec == escrow.auction
             ret == rec.highest_bidder_ft_returning_pubkey
             tmp == rec.highest_bidder_ft_temp_pubkey
         IN /\ tok'[ret].amount = tok[ret].amount + rec.price
            /\ ~tok'[tmp].init
            /\ tok'[tmp].amount = 0 ]_vars

(* C2: when Close succeeds (record initialized, caller is the stored highest *)
(* bidder, now >= auction_end, all supplied identities match), the full      *)
(* collectible balance of the custody account is in the caller's receiving   *)
(* destination, the full currency balance of the highest bidder's custody    *)
(* account, which is at least current_price, is in the exhibitor's payout    *)
(* destination, both temporary accounts are closed with zero balance and the *)
(* escrow storage no longer parses as an initialized record.                 *)
CloseSettles(a, exact) ==
  LET o   == CloseOutcome(a)
      rec == escrow.auction
      nt  == rec.exhibiting_nft_temp_pubkey
      ft  == rec.highest_bidder_ft_temp_pubkey
      pay == rec.exhibitor_ft_receiving_pubkey
  IN o.res = "Ok" =>
       /\ Initialized(escrow) /\ a.signed
       /\ a.caller = rec.highest_bidder_pubkey
       /\ now >= rec.end_at
       /\ a.exhibitor = rec.exhibitor_pubkey /\ a.nft_temp = nt
       /\ a.ft_recv = pay /\ a.hb_ft_temp = ft
       /\ o.tok[a.nft_recv].amount = tok[a.nft_recv].amount + tok[nt].amount
       /\ o.tok[pay].amount = tok[pay].amount + tok[ft].amount
       /\ IF exact THEN tok[ft].amount = rec.price
                   ELSE tok[ft].amount >= rec.price
       /\ ~o.tok[nt].init /\ o.tok[nt].amount = 0
       /\ ~o.tok[ft].init /\ o.tok[ft].amount = 0
       /\ ~Initialized(o.escrow)

SamePriceOrGone(o) ==
  \/ o.escrow = escrow
  \/ o.res = "Ok" /\ ~Initialized(o.escrow)

C3_MonotonicPrice ==
  Initialized(escrow) =>
    /\ \A x \in BidTxs :
         LET o == BidOutcome(x)
         IN IF o.res = "Ok"
            THEN /\ x[1].price > escrow.auction.price
                 /\ Initialized(o.escrow)
                 /\ o.escrow.auction.price = x[1].price
            ELSE o.escrow = escrow
    /\ \A a \in ExhibitArgs : ExhibitOutcome(a).escrow = escrow
    /\ \A a \in CancelArgs : SamePriceOrGone(CancelOutcome(a))
    /\ \A a \in CloseArgs : SamePriceOrGone(CloseOutcome(a))

C3_Witness ==
  /\ last.op = "Bid" /\ last.res = "Ok"
  /\ escrow.auction.highest_bidder_pubkey = "B2"
  /\ creator[TempName[1]] = "B1"
  /\ escrow.auction.price = MaxPrice

(* C4: assets are conserved and never stranded: the single collectible unit  *)
(* is in the custody account or delivered to one destination; for every      *)
(* bidder, own currency plus currency held for them in temporary custody     *)
(* plus currency paid out to the exhibitor on their behalf equals their       *)
(* initial currency, and a bidder who is not the current highest bidder has  *)
(* no currency left in any custody account.                                  *)
C4_AssetsConserved ==
  /\ SumAmounts(tok, NftAccts) = 1
  /\ \E a \in NftAccts : tok[a].amount = 1
  /\ \A b \in Bidders :
       /\ tok[FtOf(b)].amount + SumAmounts(tok, {t \in Temps : creator[t] = b})
            + paid[b] = InitBal
       /\ (~Initialized(escrow) \/ escrow.auction.highest_bidder_pubkey # b)
            => SumAmounts(tok, CustodyOf(b)) = 0

(* ---- outcomes of hypothetical attempts in the current state ------------- *)
Untouched(o) == o.escrow = escrow /\ o.tok = tok

\* every signed Bid transaction that satisfies P fails with `code` and
\* changes nothing
SignedBidsFail(P(_), code) ==
  \A x \in BidTxs :
    (x[1].signed /\ P(x[1]))
      => LET o == BidOutcome(x) IN o.res = code /\ Untouched(o)

(* C5: for an initialized record and a Cancel signed by the stored exhibitor *)
(* with the matching collectible custody identity, at any time: a Cancel     *)
(* with highest_bidder # Null fails with AlreadyBid and changes nothing; a   *)
(* Cancel with highest_bidder = Null succeeds exactly when the token program *)
(* accepts the return transfer; Cancel never succeeds once a Bid succeeded.  *)
CancelByExhibitor(a) ==
  /\ a.signed
  /\ a.caller = escrow.auction.exhibitor_pubkey
  /\ a.nft_temp = escrow.auction.exhibiting_nft_temp_pubkey

ReturnAccepted(a) ==
  TokTransfer(tok, a.nft_temp, a.nft_ret, PDA, a.pdaOk, tok[a.nft_temp].amount).ok

Stale(a) ==
  \/ a.hb # escrow.auction.highest_bidder_pubkey
  \/ a.hb_ft_temp # escrow.auction.highest_bidder_ft_temp_pubkey
  \/ a.hb_ft_ret # escrow.auction.highest_bidder_ft_returning_pubkey

LiveAndHigher(a) ==
  Stale(a) /\ now < escrow.auction.end_at /\ a.price > escrow.auction.price

C6_StaleBidFails ==
  Initialized(escrow) =>
    /\ \A x \in BidTxs :
         Stale(x[1]) => LET o == BidOutcome(x) IN o.res # "Ok" /\ Untouched(o)
    /\ SignedBidsFail(LiveAndHigher, "InvalidInstruction")

\* C6 as stated: every signed stale Bid fails with InvalidInstruction
C6_StaleBidInvalidInstruction ==
  Initialized(escrow) => SignedBidsFail(Stale, "InvalidInstruction")

C6_Witness ==
  /\ last.op = "Bid" /\ last.res = "InvalidInstruction"
  /\ Initialized(escrow)
  /\ escrow.auction.highest_bidder_pubkey # Null
  /\ FreshTemps # {}

(* C7: for an initialized record, every signed Bid attempted at a time       *)
(* now >= auction_end fails with InactiveAuction, whatever its price and     *)
(* other references, and leaves the record and all balances unchanged.       *)
AnyBid(a) == TRUE

C7_NoBidAfterEnd ==
  (Initialized(escrow) /\ now >= escrow.auction.end_at)
    => SignedBidsFail(AnyBid, "InactiveAuction")

C7_Witness ==
  /\ last.op = "Bid" /\ last.res = "InactiveAuction"
  /\ Initialized(escrow)
  /\ now = escrow.auction.end_at

(* C8: for an initialized record and now < auction_end, every signed Bid     *)
(* with price <= current_price fails with InsufficientBidPrice and leaves    *)
(* the record and all balances unchanged.                                    *)
NotAbove(a) == a.price <= escrow.auction.price

C8_NoUnderbid ==
  (Initialized(escrow) /\ now < escrow.auction.end_at)
    => SignedBidsFail(NotAbove, "InsufficientBidPrice")

C8_Witness ==
  /\ last.op = "Bid" /\ last.res = "InsufficientBidPrice"
  /\ Initialized(escrow)
  /\ now < escrow.auction.end_at
  /\ escrow.auction.price > 0

(* C9: for an initialized record, every signed Close attempted at a time     *)
(* now < auction_end fails with ActiveAuction, reports auction_end - now     *)
(* remaining seconds and releases nothing; Close succeeds only when          *)
(* now >= auction_end.                                                       *)
C9_NoCloseBeforeEnd ==
  Initialized(escrow) =>
    \A a \in CloseArgs :
      LET o == CloseOutcome(a)
      IN /\ (a.signed /\ now < escrow.auction.end_at)
              => /\ o.res = "ActiveAuction"
                 /\ o.msg = escrow.auction.end_at - now
                 /\ o.msg > 0
                 /\ Untouched(o)
         /\ o.res = "Ok" => now >= escrow.auction.end_at

C9_Witness ==
  /\ last.op = "Close" /\ last.res = "ActiveAuction"
  /\ Initialized(escrow)
  /\ escrow.auction.highest_bidder_pubkey # Null
  /\ now < escrow.auction.end_at

(* C10: after a Close or a Cancel has succeeded on an escrow storage, every  *)
(* later Open, Bid, Cancel or Close against it fails and changes nothing:    *)
(* the storage never parses as a record again.                               *)
Reclaimed == escrow.data_len = 0

Refused(o) == o.res # "Ok" /\ Untouched(o)

C10_NoUseAfterReclaim ==
  /\ (last.op \in {"Close", "Cancel"} /\ last.res = "Ok") => Reclaimed
  /\ Reclaimed =>
       /\ \A a \in ExhibitArgs : Refused(ExhibitOutcome(a))
       /\ \A x \in BidTxs : Refused(BidOutcome(x))
       /\ \A a \in CancelArgs : Refused(CancelOutcome(a))
       /\ \A a \in CloseArgs : Refused(CloseOutcome(a))

C10_Witness ==
  /\ Reclaimed
  /\ last.op = "Exhibit" /\ last.res # "Ok"
  /\ \E b \in Bidders : paid[b] > 0

(* ---- the calls of hypothetical attempts in the current state ------------ *)
\* an outcome that got past the instruction's checks to its token calls
ReachedCalls(o) == o.res \in {"Ok", "TokenError"}

BidCallsOf(x) ==
  BidCalls(CreateTemp(tok, x[1].ft_temp, x[1].caller, x[2]), runtime,
           escrow.auction, x[1])

AllOk(calls) == \A i \in DOMAIN calls : calls[i].ok

\* the outcome neither reports success nor has written to the escrow storage
FailedClean(o) == o.res # "Ok" /\ o.escrow = escrow

(* C11: if any token sub-call issued by an operation fails (deposit,         *)
(* authority handover, refund of the previous bidder, payout, close of a     *)
(* temporary custody account), the operation returns failure: no operation   *)
(* returns success, and no record is overwritten, after one of its sub-calls *)
(* failed.                                                                   *)
C11_SubcallFailureFails ==
  /\ \A x \in BidTxs :
       LET o == BidOutcome(x)
       IN (ReachedCalls(o) /\ ~AllOk(BidCallsOf(x))) => FailedClean(o)
  /\ \A a \in CancelArgs :
       LET o == CancelOutcome(a)
       IN (ReachedCalls(o) /\ ~AllOk(CancelCalls(tok, runtime, a)))
            => FailedClean(o)
  /\ \A a \in CloseArgs :
       LET o == CloseOutcome(a)
       IN (ReachedCalls(o) /\ ~AllOk(CloseCalls(tok, runtime, a)))
            => FailedClean(o)

(* C12: a successful Open(initial_price, duration_seconds) at time now on    *)
(* zero-initialized escrow storage leaves a record with initialized = true,  *)
(* exhibitor = caller, current_price = initial_price,                        *)
(* auction_end = now + duration_seconds and highest_bidder = Null, with      *)
(* exactly one collectible unit moved from the exhibitor's source to the     *)
(* temporary custody account and that account's authority reassigned to the *)
(* Custody Authority.                                                        *)
ZeroStorage == escrow.data_len = AuctionLEN /\ escrow.auction = ZeroAuction

OpenPost(a, end) ==
  LET o == ExhibitOutcome(a)
  IN (ZeroStorage /\ o.res = "Ok") =>
       /\ o.escrow.auction =
            [ZeroAuction EXCEPT !.is_initialized = TRUE,
                                !.exhibitor_pubkey = a.caller,
                                !.exhibiting_nft_temp_pubkey = a.nft_temp,
                                !.exhibitor_ft_receiving_pubkey = a.ft_recv,
                                !.price = a.initial_price,
                                !.end_at = end]
       /\ o.escrow.auction.highest_bidder_pubkey = Null
       /\ o.tok[a.nft_src].amount = tok[a.nft_src].amount - 1
       /\ o.tok[a.nft_temp].amount = tok[a.nft_temp].amount + 1
       /\ o.tok[a.nft_temp].owner = PDA
       /\ \A x \in TokAccts \ {a.nft_src, a.nft_temp} : o.tok[x] = tok[x]

C12_OpenPostcondition == \A a \in ExhibitArgs : OpenPost(a, now + a.seconds)

(* C13: in every reachable state of an initialized record, highest_bidder is *)
(* Null if and only if no Bid has ever been accepted on that auction: Open   *)
(* leaves it Null, every accepted Bid sets it to a non-Null identity, and no *)
(* operation resets it to Null.                                              *)
NoBidAccepted == \A t \in Temps : creator[t] = Null

\* an outcome that leaves a record keeps a bidder the record already has
KeepsBidder(o) ==
  (escrow.auction.highest_bidder_pubkey # Null /\ Initialized(o.escrow))
    => o.escrow.auction.highest_bidder_pubkey # Null

C13_NullIffNoBid ==
  /\ Initialized(escrow)
       => (escrow.auction.highest_bidder_pubkey = Null <=> NoBidAccepted)
  /\ \A a \in ExhibitArgs :
       LET o == ExhibitOutcome(a)
       IN /\ (o.res = "Ok" /\ ~Initialized(escrow))
               => o.escrow.auction.highest_bidder_pubkey = Null
          /\ KeepsBidder(o)
  /\ \A x \in BidTxs :
       LET o == BidOutcome(x)
       IN /\ o.res = "Ok"
               => /\ o.escrow.auction.highest_bidder_pubkey = x[1].caller
                  /\ x[1].caller # Null
          /\ KeepsBidder(o)
  /\ \A a \in CancelArgs : KeepsBidder(CancelOutcome(a))
  /\ \A a \in CloseArgs : KeepsBidder(CloseOutcome(a))

C13_Witness ==
  /\ Initialized(escrow)
  /\ escrow.auction.highest_bidder_pubkey = "B1"
  /\ creator[TempName[1]] = "B2"
  /\ creator[TempName[2]] = "B1"

(* C14: the initialized flag is false until Open succeeds, and Open succeeds *)
(* at most once per live record: an Open on an already-initialized record    *)
(* fails (AccountAlreadyInitialized when signed), leaves every field of the  *)
(* record unchanged and moves no collectible; Bid, Cancel and Close on a     *)
(* never-opened record all fail (UninitializedAccount when signed) without   *)
(* effect.                                                                   *)
Opened == escrow.data_len = AuctionLEN /\ escrow.auction.is_initialized

RefusedAs(o, signed, code) == Refused(o) /\ (signed => o.res = code)

C14_OpenOnce ==
  /\ Opened =>
       \A a \in ExhibitArgs :
         RefusedAs(ExhibitOutcome(a), a.signed, "AccountAlreadyInitialized")
  /\ ZeroStorage =>
       /\ \A x \in BidTxs :
            RefusedAs(BidOutcome(x), x[1].signed, "UninitializedAccount")
       /\ \A a \in CancelArgs :
            RefusedAs(CancelOutcome(a), a.signed, "UninitializedAccount")
       /\ \A a \in CloseArgs :
            RefusedAs(CloseOutcome(a), a.signed, "UninitializedAccount")
  /\ (ZeroStorage /\ last.op # "Init") => last.res # "Ok" \/ last.op = "Tick"

C14_Witness ==
  /\ last.op = "Exhibit" /\ last.res = "AccountAlreadyInitialized"
  /\ Opened
  /\ escrow.auction.highest_bidder_pubkey # Null
  /\ escrow.auction.price > 0

(* C15: auction_end is fixed at Open time and never changes: every           *)
(* successful Bid leaves auction_end, initialized, exhibitor, the exhibited  *)
(* item's custody and the exhibitor's payout destination unchanged and       *)
(* modifies only current_price, highest_bidder, the highest bidder's custody *)
(* and refund destination; every failed operation leaves the whole record    *)
(* unchanged.                                                                *)
FailedKeepsRecord(o) == o.res # "Ok" => o.escrow = escrow

BidFrame(x) ==
  LET o   == BidOutcome(x)
      rec == escrow.auction
      new == o.escrow.auction
  IN IF o.res = "Ok"
     THEN /\ new.end_at = rec.end_at
          /\ new.is_initialized = rec.is_initialized
          /\ new.exhibitor_pubkey = rec.exhibitor_pubkey
          /\ new.exhibiting_nft_temp_pubkey = rec.exhibiting_nft_temp_pubkey
          /\ new.exhibitor_ft_receiving_pubkey = rec.exhibitor_ft_receiving_pubkey
          /\ new.price = x[1].price
          /\ new.highest_bidder_pubkey = x[1].caller
          /\ new.highest_bidder_ft_temp_pubkey = x[1].ft_temp
          /\ new.highest_bidder_ft_returning_pubkey = x[1].ft_src
          /\ o.escrow.data_len = escrow.data_len
          /\ o.escrow.lamports = escrow.lamports
     ELSE o.escrow = escrow

C15_BidFrame ==
  /\ \A x \in BidTxs : BidFrame(x)
  /\ \A a \in ExhibitArgs : FailedKeepsRecord(ExhibitOutcome(a))
  /\ \A a \in CancelArgs : FailedKeepsRecord(CancelOutcome(a))
  /\ \A a \in CloseArgs : FailedKeepsRecord(CloseOutcome(a))

C15_Witness ==
  /\ last.op = "Bid" /\ last.res = "Ok"
  /\ escrow.auction.end_at = I64Max
  /\ now = 1
  /\ escrow.auction.highest_bidder_pubkey = "B2"
  /\ escrow.auction.price = 1

(* C16: a Cancel or Close in which a supplied reference does not match the   *)
(* stored record (exhibitor, exhibitor payout destination, collectible       *)
(* custody, highest-bidder custody, or the caller not being the stored       *)
(* exhibitor for Cancel / the stored highest bidder for Close) fails with    *)
(* the InvalidInstruction error kind and releases no asset, the time gate of *)
(* Close being satisfied.                                                    *)
CancelMismatch(a) ==
  \/ a.caller # escrow.auction.exhibitor_pubkey
  \/ a.nft_temp # escrow.auction.exhibiting_nft_temp_pubkey

CloseMismatch(a) ==
  \/ a.exhibitor # escrow.auction.exhibitor_pubkey
  \/ a.nft_temp # escrow.auction.exhibiting_nft_temp_pubkey
  \/ a.ft_recv # escrow.auction.exhibitor_ft_receiving_pubkey
  \/ a.hb_ft_temp # escrow.auction.highest_bidder_ft_temp_pubkey
  \/ a.caller # escrow.auction.highest_bidder_pubkey

MismatchRefused(code) ==
  Initialized(escrow) =>
    /\ \A a \in CancelArgs :
         (a.signed /\ CancelMismatch(a))
           => LET o == CancelOutcome(a) IN o.res = code /\ Untouched(o)
    /\ \A a \in CloseArgs :
         (a.signed /\ now >= escrow.auction.end_at /\ CloseMismatch(a))
           => LET o == CloseOutcome(a) IN o.res = code /\ Untouched(o)

C16_MismatchInvalidInstruction == MismatchRefused("InvalidInstruction")

(* C17: a Bid whose caller is already the stored highest bidder, made while  *)
(* the auction is live with a strictly higher price and with matching        *)
(* prior-bidder references, fails with AlreadyBid and leaves the record and  *)
(* all balances unchanged; the highest bidder can never raise or replace     *)
(* their own standing bid.                                                   *)
OwnRaise(a) ==
  /\ a.caller = escrow.auction.highest_bidder_pubkey
  /\ now < escrow.auction.end_at
  /\ a.price > escrow.auction.price
  /\ a.hb = escrow.auction.highest_bidder_pubkey
  /\ a.hb_ft_temp = escrow.auction.highest_bidder_ft_temp_pubkey
  /\ a.hb_ft_ret = escrow.auction.highest_bidder_ft_returning_pubkey

C17_NoSelfOutbid ==
  Initialized(escrow) =>
    /\ SignedBidsFail(OwnRaise, "AlreadyBid")
    /\ \A x \in BidTxs :
         x[1].caller = escrow.auction.highest_bidder_pubkey
           => LET o == BidOutcome(x) IN o.res # "Ok" /\ Untouched(o)

C17_Witness ==
  /\ last.op = "Bid" /\ last.res = "AlreadyBid"
  /\ Initialized(escrow)
  /\ escrow.auction.highest_bidder_pubkey # Null
  /\ now < escrow.auction.end_at
  /\ escrow.auction.price < MaxPrice

(* C18: no execution path attempts to close a temporary custody account that *)
(* still holds a non-zero balance: in Bid, Cancel and Close every close call *)
(* on a temporary account is reached only after a transfer that has emptied  *)
(* that account, also when the preceding refund or payout transfer failed or *)
(* the account holds more than the amount transferred.                       *)
ClosesOnlyEmpty(calls) ==
  \A i \in DOMAIN calls : calls[i].kind = "close_account" => calls[i].bal = 0

C18_NoCloseOfNonEmpty ==
  /\ \A x \in BidTxs :
       ReachedCalls(BidOutcome(x)) => ClosesOnlyEmpty(BidCallsOf(x))
  /\ \A a \in CancelArgs :
       ReachedCalls(CancelOutcome(a))
         => ClosesOnlyEmpty(CancelCalls(tok, runtime, a))
  /\ \A a \in CloseArgs :
       ReachedCalls(CloseOutcome(a))
         => ClosesOnlyEmpty(CloseCalls(tok, runtime, a))

(* C19: for every duration_seconds of the unsigned 64-bit range and every    *)
(* time now, after a successful Open the auction is live until               *)
(* now + duration_seconds: the stored auction_end is never earlier than now  *)
(* (no wraparound or sign change), so at any time t with                     *)
(* now <= t < now + duration_seconds a Bid is not rejected as InactiveAuction *)
(* and Close is not accepted.                                                *)
LiveUntil(rec, from, until) ==
  \A t \in from..MaxTime :
    t < until => ~BidInactive(rec, t) /\ CloseTooEarly(rec, t)

C19_DeadlineNotEarlier ==
  \A a \in ExhibitArgs :
    LET o == ExhibitOutcome(a)
    IN o.res = "Ok" =>
         /\ o.escrow.auction.end_at >= now
         /\ LiveUntil(o.escrow.auction, now, now + a.seconds)

(* C20: once any Bid has succeeded, the collectible leaves the exhibited     *)
(* item's custody account only through a Close signed by the stored highest  *)
(* bidder at a time now >= auction_end: no operation signed only by the      *)
(* exhibitor or by any other party releases the collectible or terminates    *)
(* the auction; and Close never succeeds on an auction with no accepted bid. *)
CollectibleCustody == escrow.auction.exhibiting_nft_temp_pubkey

\* the outcome neither moves the collectible out of custody nor ends the
\* auction
Holds(o) ==
  /\ o.tok[CollectibleCustody] = tok[CollectibleCustody]
  /\ Initialized(o.escrow)

C20_OnlyWinnerReleases ==
  Initialized(escrow) =>
    /\ ~NoBidAccepted =>
         /\ \A a \in ExhibitArgs : Holds(ExhibitOutcome(a))
         /\ \A x \in BidTxs : Holds(BidOutcome(x))
         /\ \A a \in CancelArgs : Holds(CancelOutcome(a))
         /\ \A a \in CloseArgs :
              LET o == CloseOutcome(a)
              IN \/ Holds(o)
                 \/ /\ o.res = "Ok" /\ a.signed
                    /\ a.caller = escrow.auction.highest_bidder_pubkey
                    /\ now >= escrow.auction.end_at
    /\ \A a \in CloseArgs : CloseOutcome(a).res = "Ok" => ~NoBidAccepted

C20_Witness ==
  /\ last.op = "Close" /\ last.res = "InvalidAccountData"
  /\ Initialized(escrow)
  /\ ~NoBidAccepted
  /\ now >= escrow.auction.end_at
  /\ tok[CollectibleCustody].amount = 1

(* C21: in every reachable state of a live auction with an accepted bid,     *)
(* exactly one bidder temporary custody account holds escrowed currency,     *)
(* that account is the stored highest bidder's custody account, its balance  *)
(* equals the stored current_price, and both it and the exhibited item's     *)
(* custody account (holding exactly one collectible unit) are controlled by  *)
(* the Custody Authority rather than by their depositors.                    *)
LiveWithBid ==
  /\ Initialized(escrow)
  /\ escrow.auction.highest_bidder_pubkey # Null
  /\ now < escrow.auction.end_at

\* the bidder custody accounts that hold currency
Funded == {t \in Temps : tok[t].init /\ tok[t].amount > 0}

CustodyShape(exact) ==
  LiveWithBid =>
    LET ft == escrow.auction.highest_bidder_ft_temp_pubkey
    IN /\ Funded = {ft}
       /\ IF exact THEN tok[ft].amount = escrow.auction.price
                   ELSE tok[ft].amount >= escrow.auction.price
       /\ tok[ft].owner = PDA
       /\ tok[CollectibleCustody].owner = PDA
       /\ tok[CollectibleCustody].amount = 1

C21_SingleCustody == CustodyShape(TRUE)

(* C22: the time gates of Bid and Close are exactly complementary: for every *)
(* initialized record and every time now exactly one of them is open (Bid's  *)
(* iff now < auction_end, Close's iff now >= auction_end), so at no instant  *)
(* can both a new bid and settlement be accepted; and since time never       *)
(* decreases and auction_end never changes, no Bid succeeds after an instant *)
(* at which Close was admissible.                                            *)
BidGateOpen(t) == ~BidInactive(escrow.auction, t)

CloseGateOpen(t) == ~CloseTooEarly(escrow.auction, t)

GatesComplementary ==
  Initialized(escrow) =>
    /\ \A t \in 0..MaxTime :
         /\ BidGateOpen(t) <=> t < escrow.auction.end_at
         /\ CloseGateOpen(t) <=> t >= escrow.auction.end_at
         /\ BidGateOpen(t) # CloseGateOpen(t)
    /\ \A x \in BidTxs :
         BidOutcome(x).res = "Ok"
           => /\ BidGateOpen(now) /\ ~CloseGateOpen(now)
              /\ \A a \in CloseArgs : CloseOutcome(a).res # "Ok"
    /\ \A a \in CloseArgs :
         CloseOutcome(a).res = "Ok" => CloseGateOpen(now) /\ ~BidGateOpen(now)

\* one step of the ledger: the clock does not go back, an open record keeps
\* its auction_end, and once Close's gate is open no Bid is accepted
GatesStep ==
  /\ now' >= now
  /\ (Initialized(escrow) /\ Initialized(escrow'))
       => escrow'.auction.end_at = escrow.auction.end_at
  /\ (Initialized(escrow) /\ CloseGateOpen(now))
       => ~(last'.op = "Bid" /\ last'.res = "Ok")

C22_GatesComplementary == [] GatesComplementary /\ [][GatesStep]_vars

C22_Witness ==
  /\ last.op = "Bid" /\ last.res = "InactiveAuction"
  /\ Initialized(escrow)
  /\ escrow.auction.highest_bidder_pubkey # Null
  /\ now >= escrow.auction.end_at
  /\ escrow.auction.price < MaxPrice
====
